---- MODULE Spec2Model ----
(***************************************************************************)
(* The submit-a-turn handler of the tutoring backend                       *)
(* (src/backend/api/agent.py, query) over the persisted Session and        *)
(* Message rows (src/backend/database/db_models.py).                       *)
(*                                                                         *)
(* Scores are counted in tenths: 2 is 0.2, 10 is 1.0.  An optional value   *)
(* (Python's None or a value) is the empty set or a singleton.  A text is  *)
(* a sequence of one-character strings.                                    *)
(***************************************************************************)
EXTENDS Integers, Sequences, FiniteSets, TLC

(* ------------------------------ bounds --------------------------------- *)

MaxSessions == 2      \* sessions that may exist
MaxTurns == 2         \* committed cycles in Spec
MaxTime == 2          \* clock ticks
ScenarioTurns == 7    \* committed cycles in SpecScenario
ConcurrentTurns == 2  \* committed cycles before the last requests of SpecConcurrent
MaxStamp == 5         \* creation times taken before the last requests of SpecConcurrent
CodeTurns == 2        \* committed cycles in SpecCode

(* ----------------------- configuration values -------------------------- *)

\* cfg["support_agent"]["thread_timeout_seconds"], in clock ticks
ThreadTimeout == 1
\* the threshold of the prompt selection, 0.5
FrustrationThreshold == 5
\* the topic length from which the penalty saturates
SaturationLength == 5
\* the saturated penalty, 0.5
SaturatedPenalty == 5
\* the upper clamp of the fused score, 1.0
ScoreCap == 10

(* ------------------------------ optionals ------------------------------ *)

None == {}
Some(x) == {x}
The(o) == CHOOSE x \in o : TRUE

(* -------------------------------- texts -------------------------------- *)

Whitespace == {" ", "\n"}
UpperCase == {"Y", "E", "S", "N", "O"}
LowerCase == {"y", "e", "s", "n", "o", "i", "t"}

\* str.isalpha of one character
IsAlpha(c) == c \in UpperCase \cup LowerCase

\* str.lower of one character
LowerChar(c) ==
  CASE c = "Y" -> "y"
    [] c = "E" -> "e"
    [] c = "S" -> "s"
    [] c = "N" -> "n"
    [] c = "O" -> "o"
    [] OTHER -> c

Lower(s) == [i \in 1..Len(s) |-> LowerChar(s[i])]

RECURSIVE LStrip(_)
LStrip(s) == IF s # <<>> /\ Head(s) \in Whitespace THEN LStrip(Tail(s)) ELSE s

RECURSIVE RStrip(_)
RStrip(s) ==
  IF s # <<>> /\ s[Len(s)] \in Whitespace THEN RStrip(SubSeq(s, 1, Len(s) - 1)) ELSE s

\* str.strip
Strip(s) == RStrip(LStrip(s))

RECURSIVE OnlyAlpha(_)
OnlyAlpha(s) ==
  IF s = <<>> THEN <<>>
  ELSE IF IsAlpha(Head(s)) THEN <<Head(s)>> \o OnlyAlpha(Tail(s))
  ELSE OnlyAlpha(Tail(s))

\* Python truthiness of an optional text: neither None nor ""
Truthy(o) == o # None /\ The(o) # <<>>

Yes == <<"y", "e", "s">>
No == <<"n", "o">>

\* the continuity reply as the handler reads it
NormalizeReply(text) ==
  IF Truthy(text)
  THEN LET t == OnlyAlpha(Lower(Strip(The(text))))
       IN IF t = <<>> THEN No ELSE t
  ELSE <<>>

\* the texts the generation service may answer the continuity question with
ContinuityReplies ==
  { None,
    Some(<<>>),
    Some(<<"Y", "E", "S">>),
    Some(<<"y", "e", "s">>),
    Some(<<" ", "Y", "e", "s", ".", "\n">>),
    Some(<<"N", "O">>),
    Some(<<"n", "o">>),
    Some(<<"y", "e", "s", " ", "i", "t", " ", "i", "s">>),
    Some(<<" ", "\n">>),
    Some(<<"1", ".">>) }

NoSummaryText ==
  <<"N", "o", " ", "r", "e", "s", "p", "o", "n", "s", "e">>

\* the texts the generation service may answer the topic summary with
SummaryTexts ==
  { None,
    Some(<<" ", "\n">>),
    Some(<<" ", "l", "o", "o", "p", "s", "\n">>) }

\* make_topic_summary's return value for an answer of the service
TopicSummaryOf(text) == IF Truthy(text) THEN Strip(The(text)) ELSE NoSummaryText

\* the longest summary that is kept as a title, and the length of the excerpt
\* of the problem that replaces it
TitleLimit == 100
ExcerptLength == 50

Ellipsis == <<".", ".", ".">>

\* a text of n characters in which neighbours differ
Patterned(n) == [i \in 1..n |-> IF i % 2 = 1 THEN "e" ELSE "o"]

RECURSIVE Join(_)
\* "".join(texts)
Join(texts) == IF texts = <<>> THEN <<>> ELSE Head(texts) \o Join(Tail(texts))

\* an answer of the generation service to the title request: the call raises,
\* or returns a response with its text (None when there is none) and the parts
\* of its first candidate (None when there is no candidate, content or part;
\* a part's text may itself be None)
TitleReply(raises, text, parts) == [raises |-> raises, text |-> text, parts |-> parts]

\* the problem in place of a summary, without the three dots
ProblemExcerptWithoutEllipsis(problem) ==
  IF Len(problem) > ExcerptLength THEN SubSeq(problem, 1, ExcerptLength) ELSE problem

\* request.problem[:50] + "..." if len(request.problem) > 50 else request.problem
ProblemExcerpt(problem) ==
  IF Len(problem) > ExcerptLength
  THEN SubSeq(problem, 1, ExcerptLength) \o Ellipsis
  ELSE problem

\* the join of the parts raises TypeError when the text of a part is None
JoinRaises(reply) ==
  /\ ~Truthy(reply.text)
  /\ reply.parts # None
  /\ \E i \in DOMAIN The(reply.parts) : The(reply.parts)[i] = None

\* session_title before the fallback: the stripped text of the response, else
\* the stripped join of the parts of the first candidate, else None
SummaryTitle(reply) ==
  IF Truthy(reply.text)
  THEN Some(Strip(The(reply.text)))
  ELSE IF reply.parts # None /\ The(reply.parts) # <<>>
  THEN Some(Strip(Join([i \in DOMAIN The(reply.parts) |-> The(The(reply.parts)[i])])))
  ELSE None

\* the title kept whatever its length
SessionTitleOfAnyLength(reply, problem) ==
  IF reply.raises \/ JoinRaises(reply)
  THEN ProblemExcerpt(problem)
  ELSE IF ~Truthy(SummaryTitle(reply))
  THEN ProblemExcerpt(problem)
  ELSE The(SummaryTitle(reply))

\* session_title: the summary, or the excerpt of the problem when the call or
\* the join raises, or the summary is None, empty or longer than the limit
SessionTitle(reply, problem) ==
  IF reply.raises \/ JoinRaises(reply)
  THEN ProblemExcerpt(problem)
  ELSE IF ~Truthy(SummaryTitle(reply)) \/ Len(The(SummaryTitle(reply))) > TitleLimit
  THEN ProblemExcerpt(problem)
  ELSE The(SummaryTitle(reply))

(* ------------------------------- inputs -------------------------------- *)

Users == {1, 2}
SessionIds == 1..MaxSessions
\* an id no session ever has: ids are allocated from SessionIds only
UnknownId == MaxSessions + 1

NoSessionId == [kind |-> "none", id |-> 0]
BlankSessionId == [kind |-> "blank", id |-> 0]
SessionIdOf(i) == [kind |-> "id", id |-> i]

\* request.session_id: absent, blank, or an id
SessionIdInputs ==
  {NoSessionId, BlankSessionId} \cup {SessionIdOf(i) : i \in SessionIds \cup {UnknownId}}

\* request.code: absent (None or ""), parsing, or not parsing
CodeKinds == {"absent", "valid", "invalid"}

\* request.problem: a short one, one of exactly the excerpt's length, one longer
ShortProblem == <<"y", "e", "s">>
Problems == {ShortProblem, Patterned(ExcerptLength), Patterned(ExcerptLength + 1)}
OneProblem == {ShortProblem}

ShortTitle == <<"l", "o", "o", "p", "s">>

\* the answers to the title request: the call raises; no text and no parts; no
\* text but parts; a part without text; an empty text; blanks only; a title
\* between blanks; a text of exactly the limit; one character more; one
\* character more that is a trailing newline
TitleReplies ==
  { TitleReply(TRUE, None, None),
    TitleReply(FALSE, None, None),
    TitleReply(FALSE, None, Some(<<Some(<<" ", "l", "o">>), Some(<<"o", "p", "s", "\n">>)>>)),
    TitleReply(FALSE, None, Some(<<Some(ShortTitle), None>>)),
    TitleReply(FALSE, Some(<<>>), None),
    TitleReply(FALSE, Some(<<" ", "\n">>), None),
    TitleReply(FALSE, Some(<<" ">> \o ShortTitle \o <<"\n">>), None),
    TitleReply(FALSE, Some(Patterned(TitleLimit)), None),
    TitleReply(FALSE, Some(Patterned(TitleLimit + 1)), None),
    TitleReply(FALSE, Some(Patterned(TitleLimit) \o <<"\n">>), None) }

OneTitleReply == {TitleReply(FALSE, Some(ShortTitle), None)}

\* the classifier's frustration_probability
RawProbabilities == {0, 2, 10}

\* the inputs of the workloads
OneUser == {1}
OneSessionInputs == {NoSessionId, SessionIdOf(1)}
NoCode == {"absent"}
\* no id or the id of a session that may exist
StoredSessionInputs == {NoSessionId} \cup {SessionIdOf(i) : i \in SessionIds}
\* the session_id of the history path: always an id
PathSessionIds == {SessionIdOf(i) : i \in SessionIds \cup {UnknownId}}
OneProbability == {2}
ExtremeProbabilities == {0, ScoreCap}

(* -------------------------------- state -------------------------------- *)

VARIABLES
  sessions,     \* ConversationSession rows: id -> row
  messages,     \* Message rows
  now,          \* the clock
  analyzer,     \* app.state.analyzer is set
  project_id,   \* GOOGLE_CLOUD_PROJECT is set
  req           \* each worker's request in progress

vars == <<sessions, messages, now, analyzer, project_id, req>>

\* the workers of Spec: one event loop runs one handler body at a time
Workers == {1}

\* the workers of SpecConcurrent: two server processes on one database
ConcurrentWorkers == {1, 2}

IdleReq ==
  [ pc |-> "idle",
    user |-> 0,
    session_id |-> NoSessionId,
    problem |-> <<>>,
    code |-> "absent",
    title_reply |-> None,
    frustration_analysis |-> None,
    conv_session |-> None,
    loaded |-> None,
    conversation_history |-> <<>>,
    calls |-> <<>>,
    continuity_reply |-> <<>>,
    outcome |-> "",
    frustration_score |-> None,
    user_message |-> None,
    full_conversation |-> <<>>,
    system_instruction |-> "",
    assistant_message |-> None,
    response |-> None,
    error |-> "",
    view |-> None ]

Init ==
  /\ sessions = <<>>
  /\ messages = {}
  /\ now = 0
  /\ analyzer \in BOOLEAN
  /\ project_id \in BOOLEAN
  /\ req = [p \in ConcurrentWorkers |-> IdleReq]

(* ------------------------------- queries ------------------------------- *)

UserMessages == {m \in messages : m.role = "user"}

MessagesOf(sid) == {m \in messages : m.conversation_session_id = sid}

RECURSIVE OrderByCreatedAt(_)
\* ORDER BY created_at ASC
OrderByCreatedAt(ms) ==
  IF ms = {} THEN <<>>
  ELSE LET first == CHOOSE m \in ms : \A o \in ms : m.created_at <= o.created_at
       IN <<first>> \o OrderByCreatedAt(ms \ {first})

\* the creation time of a message built now: later than every message that exists
InFlightMessages ==
  UNION {req[p].user_message \cup req[p].assistant_message : p \in DOMAIN req}

CreatedAtNow ==
  LET taken == {m.created_at : m \in messages \cup InFlightMessages}
  IN IF taken = {} THEN 1 ELSE 1 + (CHOOSE t \in taken : \A o \in taken : o <= t)

\* uuid4().hex of a new session: an id no row and no request holds
InFlightIds ==
  {The(req[p].conv_session).id : p \in {q \in DOMAIN req : req[q].conv_session # None}}

NewSessionId ==
  CHOOSE i \in SessionIds \ (DOMAIN sessions \cup InFlightIds) :
    \A j \in SessionIds \ (DOMAIN sessions \cup InFlightIds) : i <= j

(* ------------------------- the handler's rules ------------------------- *)

Min(a, b) == IF a <= b THEN a ELSE b

\* request.session_id and request.session_id.strip()
HasSessionId(sid) == sid.kind = "id"

\* db.get(ConversationSession, request.session_id)
GetSession(sid) ==
  IF HasSessionId(sid) /\ sid.id \in DOMAIN sessions THEN Some(sessions[sid.id]) ELSE None

OwnershipNeverChecked(row, user) == FALSE

\* conv_session.user_id != user.id
OwnershipMismatch(row, user) == row.user_id # user

RenderHistoryNewestFirst(sid) ==
  LET ms == OrderByCreatedAt(MessagesOf(sid))
  IN [i \in 1..Len(ms) |->
        <<IF ms[Len(ms) + 1 - i].role = "user" THEN "User" ELSE "Assistant",
          ms[Len(ms) + 1 - i].content>>]

\* the rendered lines of the session's messages, oldest first
RenderHistory(sid) ==
  LET ms == OrderByCreatedAt(MessagesOf(sid))
  IN [i \in 1..Len(ms) |->
        <<IF ms[i].role = "user" THEN "User" ELSE "Assistant", ms[i].content>>]

NewSessionCountingItsFirstTurn(id, user, title, t) ==
  [ id |-> id,
    user_id |-> user,
    title |-> title,
    updated_at |-> t,
    last_topic |-> None,
    current_topic_length |-> 1 ]

\* ConversationSession(user_id=user.id, title=...): the defaults of the row
NewSession(id, user, title, t) ==
  [ id |-> id,
    user_id |-> user,
    title |-> title,
    updated_at |-> t,
    last_topic |-> None,
    current_topic_length |-> 0 ]

\* the session has been idle for longer than the thread timeout
IsIdle(row, t) == t - row.updated_at > ThreadTimeout

NeedsFreshTopicIgnoringIdle(row, t) == ~Truthy(row.last_topic)

\* (not conv_session.last_topic) or idle
NeedsFreshTopic(row, t) == ~Truthy(row.last_topic) \/ IsIdle(row, t)

ResetTopicKeepingLength(row) == [row EXCEPT !.last_topic = None]

ResetTopicKeepingTopic(row) == [row EXCEPT !.current_topic_length = 0]

\* last_topic = None; current_topic_length = 0
ResetTopic(row) == [row EXCEPT !.last_topic = None, !.current_topic_length = 0]

IsDriftUnlessItStartsWithYes(text) ==
  ~(Len(NormalizeReply(text)) >= 3 /\ SubSeq(NormalizeReply(text), 1, 3) = Yes)

\* response_text != "yes"
IsDrift(text) == NormalizeReply(text) # Yes

PenaltyWithoutSaturation(length) == length - 1

PenaltySaturatingLow(length) ==
  IF length < SaturationLength THEN length - 1 ELSE SaturationLength - 1

\* the topic-persistence penalty of line 243
Penalty(length) ==
  IF length < SaturationLength THEN length - 1 ELSE SaturatedPenalty

FuseAfterIncrement(raw, length) == Min(raw + Penalty(length + 1), ScoreCap)

\* frustration_score += penalty; min(frustration_score, 1.0)
Fuse(raw, length) == Min(raw + Penalty(length), ScoreCap)

SelectInstructionAtThreshold(score) ==
  IF score # None /\ The(score) # 0 /\ The(score) >= FrustrationThreshold
  THEN "frustration_prompt"
  ELSE "system_prompt"

\* frustration_prompt if frustration_score and frustration_score > 0.5
SelectInstruction(score) ==
  IF score # None /\ The(score) # 0 /\ The(score) > FrustrationThreshold
  THEN "frustration_prompt"
  ELSE "system_prompt"

\* get_syntax_errors: None when the code parses, the diagnostic otherwise
GetSyntaxErrors(code) ==
  IF code = "invalid" THEN Some([msg |-> "invalid syntax", lineno |-> 1]) ELSE None

\* str() of get_syntax_errors' result
PyStr(diag) == IF diag = None THEN "None" ELSE "{'msg': 'invalid syntax', 'lineno': 1}"

\* str(get_syntax_errors(request.code)) if request.code else None
SyntaxErrorsField(code) ==
  IF code = "absent" THEN None ELSE Some(PyStr(GetSyntaxErrors(code)))

\* current_user_prompt
UserPrompt(code) == <<"Problem", code>>

\* full_conversation: the history and the "User: " line, or the bare prompt when
\* there is no history
FullConversation(history, prompt) ==
  IF history # <<>> THEN history \o <<<<"User", prompt>>>> ELSE <<<<"", prompt>>>>

TouchWithoutIncrement(row, t) == [row EXCEPT !.updated_at = t]

\* updated_at = now; current_topic_length += 1
Touch(row, t) ==
  [row EXCEPT !.updated_at = t, !.current_topic_length = row.current_topic_length + 1]

CommittedRowWithoutTopic(row, loaded) == [row EXCEPT !.last_topic = None]

\* the row db.commit() leaves: the attributes the request changed are written
CommittedRow(row, loaded) ==
  IF loaded = None \/ row.id \notin DOMAIN sessions THEN row
  ELSE [sessions[row.id] EXCEPT
          !.updated_at = row.updated_at,
          !.current_topic_length = row.current_topic_length,
          !.last_topic = IF row.last_topic # The(loaded).last_topic
                         THEN row.last_topic ELSE @]

CommittedUserMessageOnly(r) == r.user_message

\* db.add(user_message); db.add(assistant_message)
CommittedMessages(r) == r.user_message \cup r.assistant_message

\* str(e) of the exceptions the except clause meets
AccessDenied == "Access denied to this session"
ConfigurationMissing == "Environment variables is not set"
ContinuityFailure == "continuity call failed"
SummaryFailure == "topic summary call failed"
FusionTypeError == "unsupported operand type(s) for +=: 'NoneType' and 'float'"
ReplyFailure == "main reply call failed"

\* the except clause: the request ends with HTTP 500 and the detail
Fail(p, detail) == [req EXCEPT ![p].pc = "error", ![p].error = detail]

\* client.models.generate_content has been called for `call` by request p
Called(p, call) == Append(req[p].calls, call)


\* dt.datetime.now(): a time not earlier than the last one read
ClockReads == now..MaxTime

DbUnchanged == UNCHANGED <<sessions, messages>>
ConfigUnchanged == UNCHANGED <<analyzer, project_id>>
EnvUnchanged == UNCHANGED <<now, analyzer, project_id>>

(* ------------------------------ the steps ------------------------------ *)

\* lines 84-124: the classifier is asked, the configuration is read
Accept(p, users, sids, problems, codes, raws, maxSessions, maxTurns) ==
  /\ req[p].pc = "idle"
  /\ Cardinality(UserMessages) < maxTurns
  /\ \E user \in users, sid \in sids, problem \in problems, code \in codes :
       \* an id the client holds is one it was given, or one of no session
       /\ HasSessionId(sid) => sid.id \in DOMAIN sessions \cup {UnknownId}
       /\ GetSession(sid) = None => Cardinality(DOMAIN sessions) < maxSessions
       /\ \E analysis \in (IF analyzer THEN {None} \cup {Some(r) : r \in raws} ELSE {None}) :
            LET r == [IdleReq EXCEPT
                        !.user = user,
                        !.session_id = sid,
                        !.problem = problem,
                        !.code = code,
                        !.frustration_analysis = analysis]
            IN req' = [req EXCEPT ![p] =
                         IF project_id
                         THEN [r EXCEPT !.pc = "resolve"]
                         ELSE [r EXCEPT !.pc = "error",
                                        !.error = ConfigurationMissing]]
  /\ DbUnchanged
  /\ EnvUnchanged

\* a request arrives at the one event loop, which runs no other handler body
Submit(p, users, sids, problems, codes, raws, maxSessions, maxTurns) ==
  /\ \A q \in Workers : req[q].pc = "idle"
  /\ Accept(p, users, sids, problems, codes, raws, maxSessions, maxTurns)

\* a request arrives at one of two server processes, whatever the other is doing
SubmitConcurrently(p, users, sids, problems, codes, raws, maxSessions, maxTurns) ==
  /\ CreatedAtNow <= MaxStamp
  /\ Accept(p, users, sids, problems, codes, raws, maxSessions, maxTurns)

\* lines 126-143: the session is looked up and its messages are read
Resolve(p) ==
  /\ req[p].pc = "resolve"
  /\ LET found == GetSession(req[p].session_id)
     IN IF found # None /\ OwnershipMismatch(The(found), req[p].user)
        THEN req' = Fail(p, AccessDenied)
        ELSE IF found # None
        THEN req' = [req EXCEPT
                       ![p].pc = "evaluate",
                       ![p].conv_session = found,
                       ![p].loaded = found,
                       ![p].conversation_history = RenderHistory(The(found).id)]
        ELSE req' = [req EXCEPT ![p].pc = "title"]
  /\ DbUnchanged
  /\ EnvUnchanged

\* lines 146-192: the title is asked for (a failure is caught) and the session built
TitleSummary(p, replies) ==
  /\ req[p].pc = "title"
  /\ \E reply \in replies, t \in ClockReads :
       /\ now' = t
       /\ req' = [req EXCEPT
                    ![p].pc = "summary",
                    ![p].calls = Called(p, "title"),
                    ![p].title_reply = Some(reply),
                    ![p].outcome = "FRESH",
                    ![p].conv_session =
                      Some(NewSession(NewSessionId, req[p].user,
                                      SessionTitle(reply, req[p].problem), t))]
  /\ DbUnchanged
  /\ ConfigUnchanged

EvaluateTopicWritingThrough(p) ==
  /\ req[p].pc = "evaluate"
  /\ \E t \in ClockReads :
       LET row == The(req[p].conv_session)
       IN /\ now' = t
          /\ IF NeedsFreshTopic(row, t)
             THEN /\ req' = [req EXCEPT
                               ![p].pc = "summary",
                               ![p].outcome = "FRESH",
                               ![p].conv_session = Some(ResetTopic(row))]
                  /\ sessions' = [sessions EXCEPT ![row.id] = ResetTopic(row)]
             ELSE /\ req' = [req EXCEPT ![p].pc = "continuity"]
                  /\ UNCHANGED sessions
  /\ UNCHANGED messages
  /\ ConfigUnchanged

\* lines 193-203: no topic or an idle thread resets; otherwise the continuity call
EvaluateTopic(p) ==
  /\ req[p].pc = "evaluate"
  /\ \E t \in ClockReads :
       LET row == The(req[p].conv_session)
       IN /\ now' = t
          /\ IF NeedsFreshTopic(row, t)
             THEN req' = [req EXCEPT
                            ![p].pc = "summary",
                            ![p].outcome = "FRESH",
                            ![p].conv_session = Some(ResetTopic(row))]
             ELSE req' = [req EXCEPT ![p].pc = "continuity"]
  /\ DbUnchanged
  /\ ConfigUnchanged

ContinuityRetriedOnce(p) ==
  /\ req[p].pc = "continuity"
  /\ \/ /\ Len(req[p].calls) < 2
        /\ req' = [req EXCEPT ![p].calls = Called(p, "continuity")]
     \/ req' = [Fail(p, ContinuityFailure) EXCEPT ![p].calls = Called(p, "continuity")]
     \/ \E text \in ContinuityReplies :
          req' = [req EXCEPT
                    ![p].pc = "summary",
                    ![p].calls = Called(p, "continuity"),
                    ![p].continuity_reply = <<text>>,
                    ![p].outcome = IF IsDrift(text) THEN "DRIFTED" ELSE "CONTINUED",
                    ![p].conv_session =
                      IF IsDrift(text) THEN Some(ResetTopic(The(req[p].conv_session))) ELSE @]
  /\ DbUnchanged
  /\ EnvUnchanged

\* lines 205-227: the continuity call returns or raises
Continuity(p) ==
  /\ req[p].pc = "continuity"
  /\ \/ req' = [Fail(p, ContinuityFailure) EXCEPT ![p].calls = Called(p, "continuity")]
     \/ \E text \in ContinuityReplies :
          IF IsDrift(text)
          THEN req' = [req EXCEPT
                         ![p].pc = "summary",
                         ![p].calls = Called(p, "continuity"),
                         ![p].continuity_reply = <<text>>,
                         ![p].outcome = "DRIFTED",
                         ![p].conv_session = Some(ResetTopic(The(req[p].conv_session)))]
          ELSE req' = [req EXCEPT
                         ![p].pc = "summary",
                         ![p].calls = Called(p, "continuity"),
                         ![p].continuity_reply = <<text>>,
                         ![p].outcome = "CONTINUED"]
  /\ DbUnchanged
  /\ EnvUnchanged

\* lines 232-235 and make_topic_summary: the call returns or raises
TopicSummary(p) ==
  /\ req[p].pc = "summary"
  /\ LET row == The(req[p].conv_session)
     IN IF Truthy(row.last_topic)
        THEN req' = [req EXCEPT ![p].pc = "fuse"]
        ELSE \/ req' = [Fail(p, SummaryFailure) EXCEPT ![p].calls = Called(p, "summary")]
             \/ \E text \in SummaryTexts :
                  req' = [req EXCEPT
                            ![p].pc = "fuse",
                            ![p].calls = Called(p, "summary"),
                            ![p].conv_session =
                              Some([row EXCEPT !.last_topic = Some(TopicSummaryOf(text))])]
  /\ DbUnchanged
  /\ EnvUnchanged

\* the Message rows the request builds
UserMessage(p, score) ==
  [ conversation_session_id |-> The(req[p].conv_session).id,
    role |-> "user",
    content |-> UserPrompt(req[p].code),
    syntax_errors |-> SyntaxErrorsField(req[p].code),
    frustration_score |-> score,
    created_at |-> CreatedAtNow,
    reply_to |-> 0,
    author |-> req[p].user,
    continued |-> req[p].outcome = "CONTINUED",
    raw |-> req[p].frustration_analysis ]

AssistantMessage(p) ==
  [ conversation_session_id |-> The(req[p].conv_session).id,
    role |-> "assistant",
    content |-> <<"reply">>,
    syntax_errors |-> None,
    frustration_score |-> None,
    created_at |-> CreatedAtNow,
    reply_to |-> The(req[p].user_message).created_at,
    author |-> req[p].user,
    continued |-> req[p].outcome = "CONTINUED",
    raw |-> req[p].frustration_analysis ]

\* lines 238-260: the score is fused (None + number raises), the user message and
\* the prompt are built
FuseFrustration(p) ==
  /\ req[p].pc = "fuse"
  /\ IF req[p].frustration_analysis = None
     THEN req' = Fail(p, FusionTypeError)
     ELSE LET score == Some(Fuse(The(req[p].frustration_analysis),
                                 The(req[p].conv_session).current_topic_length))
          IN req' = [req EXCEPT
                       ![p].pc = "generate",
                       ![p].frustration_score = score,
                       ![p].user_message = Some(UserMessage(p, score)),
                       ![p].full_conversation =
                         FullConversation(req[p].conversation_history,
                                          UserPrompt(req[p].code))]
  /\ DbUnchanged
  /\ EnvUnchanged

\* lines 262-279: the main reply call returns or raises
GenerateReply(p) ==
  /\ req[p].pc = "generate"
  /\ \/ req' = [Fail(p, ReplyFailure) EXCEPT ![p].calls = Called(p, "reply")]
     \/ req' = [req EXCEPT
                  ![p].pc = "persist",
                  ![p].calls = Called(p, "reply"),
                  ![p].system_instruction = SelectInstruction(req[p].frustration_score),
                  ![p].assistant_message = Some(AssistantMessage(p))]
  /\ DbUnchanged
  /\ EnvUnchanged

\* lines 281-293: the session is touched, the three rows are committed together
Persist(p) ==
  /\ req[p].pc = "persist"
  /\ \E t \in ClockReads :
     LET row == Touch(The(req[p].conv_session), t)
         stored == CommittedRow(row, req[p].loaded)
     IN /\ now' = t
        /\ sessions' = (row.id :> stored) @@ sessions
        /\ messages' = messages \cup CommittedMessages(req[p])
        /\ req' = [req EXCEPT
                     ![p].pc = "done",
                     ![p].conv_session = Some(row),
                     ![p].response =
                       Some([ response |-> <<"reply">>,
                              session_id |-> row.id,
                              current_topic_length |-> row.current_topic_length,
                              frustration_analysis |-> req[p].frustration_analysis ])]
  /\ ConfigUnchanged

\* WHERE ConversationSession.user_id == user.id
SessionsOfEveryUser(user) == DOMAIN sessions

SessionsOf(user) == {id \in DOMAIN sessions : sessions[id].user_id = user}

\* ORDER BY updated_at DESC: an order of the ids in which no session comes
\* before one updated later; sessions updated at the same time in any order
OrdersByUpdatedAtDesc(ids) ==
  {order \in [1..Cardinality(ids) -> ids] :
     /\ \A i, j \in 1..Cardinality(ids) : i # j => order[i] # order[j]
     /\ \A i, j \in 1..Cardinality(ids) :
          i < j => sessions[order[i]].updated_at >= sessions[order[j]].updated_at}

\* one entry of the listing
SessionItem(id) ==
  [ id |-> id,
    title |-> sessions[id].title,
    updated_at |-> sessions[id].updated_at,
    message_count |-> Cardinality(MessagesOf(id)) ]

\* one entry of the history: the code's fields of the message
MessageItem(m) ==
  [ role |-> m.role,
    content |-> m.content,
    created_at |-> m.created_at,
    syntax_errors |-> IF m.role = "user" THEN m.syntax_errors ELSE None ]

SessionNotFound == "Session not found"

\* helpers.py get_user_sessions: the sessions of the user, last updated first
GetUserSessions(p, users) ==
  /\ \A q \in Workers : req[q].pc = "idle"
  /\ \E user \in users :
     \E order \in OrdersByUpdatedAtDesc(SessionsOf(user)) :
       req' = [req EXCEPT ![p] =
                 [IdleReq EXCEPT
                    !.pc = "read",
                    !.user = user,
                    !.view = Some([ op |-> "sessions",
                                    status |-> 200,
                                    detail |-> "",
                                    items |-> [i \in DOMAIN order |-> SessionItem(order[i])] ])]]
  /\ DbUnchanged
  /\ EnvUnchanged

\* helpers.py get_session_history: 404, 403, or the messages oldest first
GetSessionHistory(p, users, sids) ==
  /\ \A q \in Workers : req[q].pc = "idle"
  /\ \E user \in users, sid \in sids :
       LET session == GetSession(sid)
           ms == OrderByCreatedAt(MessagesOf(sid.id))
           answer ==
             IF session = None
             THEN [op |-> "history", status |-> 404, detail |-> SessionNotFound, items |-> <<>>]
             ELSE IF OwnershipMismatch(The(session), user)
             THEN [op |-> "history", status |-> 403, detail |-> AccessDenied, items |-> <<>>]
             ELSE [op |-> "history", status |-> 200, detail |-> "",
                   items |-> [i \in DOMAIN ms |-> MessageItem(ms[i])]]
       IN req' = [req EXCEPT ![p] =
                    [IdleReq EXCEPT
                       !.pc = "read",
                       !.user = user,
                       !.session_id = sid,
                       !.view = Some(answer)]]
  /\ DbUnchanged
  /\ EnvUnchanged

\* the response or the error has been sent: the worker takes the next request
Finish(p) ==
  /\ req[p].pc \in {"done", "error", "read"}
  /\ req' = [req EXCEPT ![p] = IdleReq]
  /\ DbUnchanged
  /\ EnvUnchanged

(* --------------------------- specifications ---------------------------- *)

\* the requests of Spec: both users, every form of session id, the extreme scores
Next ==
  \E p \in Workers :
    \/ Submit(p, Users, SessionIdInputs, OneProblem, NoCode, ExtremeProbabilities, MaxSessions, MaxTurns)
    \/ Resolve(p)
    \/ TitleSummary(p, OneTitleReply)
    \/ EvaluateTopic(p)
    \/ Continuity(p)
    \/ TopicSummary(p)
    \/ FuseFrustration(p)
    \/ GenerateReply(p)
    \/ Persist(p)
    \/ Finish(p)

Spec == Init /\ [][Next]_vars

\* the requests of the liveness scenario: one user on one session
LiveNext ==
  \E p \in Workers :
    \/ Submit(p, OneUser, OneSessionInputs, OneProblem, NoCode, OneProbability, 1, MaxTurns)
    \/ Resolve(p)
    \/ TitleSummary(p, OneTitleReply)
    \/ EvaluateTopic(p)
    \/ Continuity(p)
    \/ TopicSummary(p)
    \/ FuseFrustration(p)
    \/ GenerateReply(p)
    \/ Persist(p)
    \/ Finish(p)

\* every step the handler can take is taken: it has no loop and no wait of its own
SpecLive == Init /\ [][LiveNext]_vars /\ WF_vars(LiveNext)

\* the requests of the long-thread scenario: one user on one session, every turn
\* scored 0.2 by the classifier
ScenarioNext ==
  \E p \in Workers :
    \/ Submit(p, OneUser, OneSessionInputs, OneProblem, NoCode, OneProbability, 1, ScenarioTurns)
    \/ Resolve(p)
    \/ TitleSummary(p, OneTitleReply)
    \/ EvaluateTopic(p)
    \/ Continuity(p)
    \/ TopicSummary(p)
    \/ FuseFrustration(p)
    \/ GenerateReply(p)
    \/ Persist(p)
    \/ Finish(p)

SpecScenario == Init /\ [][ScenarioNext]_vars

\* the requests of the title scenario: one user on one session, with problems
\* around the excerpt's length and every answer to the title request
TitleNext ==
  \E p \in Workers :
    \/ Submit(p, OneUser, OneSessionInputs, Problems, NoCode, OneProbability, 1, MaxTurns)
    \/ Resolve(p)
    \/ TitleSummary(p, TitleReplies)
    \/ EvaluateTopic(p)
    \/ Continuity(p)
    \/ TopicSummary(p)
    \/ FuseFrustration(p)
    \/ GenerateReply(p)
    \/ Persist(p)
    \/ Finish(p)

SpecTitle == Init /\ [][TitleNext]_vars

\* the requests of the code scenario: one user on one session, with the three
\* kinds of submitted code
CodeNext ==
  \E p \in Workers :
    \/ Submit(p, OneUser, OneSessionInputs, OneProblem, CodeKinds, OneProbability, 1, CodeTurns)
    \/ Resolve(p)
    \/ TitleSummary(p, OneTitleReply)
    \/ EvaluateTopic(p)
    \/ Continuity(p)
    \/ TopicSummary(p)
    \/ FuseFrustration(p)
    \/ GenerateReply(p)
    \/ Persist(p)
    \/ Finish(p)

SpecCode == Init /\ [][CodeNext]_vars

\* the requests of the reading scenario: both users submit turns, list their
\* sessions and read histories
ReadNext ==
  \E p \in Workers :
    \/ Submit(p, Users, StoredSessionInputs, OneProblem, NoCode, OneProbability, MaxSessions, MaxTurns)
    \/ Resolve(p)
    \/ TitleSummary(p, OneTitleReply)
    \/ EvaluateTopic(p)
    \/ Continuity(p)
    \/ TopicSummary(p)
    \/ FuseFrustration(p)
    \/ GenerateReply(p)
    \/ Persist(p)
    \/ Finish(p)
    \/ GetUserSessions(p, Users)
    \/ GetSessionHistory(p, Users, PathSessionIds)

SpecRead == Init /\ [][ReadNext]_vars

\* the requests of two server processes on one database: one user on one session,
\* the handlers' steps interleaved
ConcurrentNext ==
  \E p \in ConcurrentWorkers :
    \/ SubmitConcurrently(p, OneUser, OneSessionInputs, OneProblem, NoCode, OneProbability, 1,
                          ConcurrentTurns)
    \/ Resolve(p)
    \/ TitleSummary(p, OneTitleReply)
    \/ EvaluateTopic(p)
    \/ Continuity(p)
    \/ TopicSummary(p)
    \/ FuseFrustration(p)
    \/ GenerateReply(p)
    \/ Persist(p)
    \/ Finish(p)

\* a configured deployment whose requests all fall within one clock tick
InitConcurrent ==
  /\ sessions = <<>>
  /\ messages = {}
  /\ now = MaxTime
  /\ analyzer = TRUE
  /\ project_id = TRUE
  /\ req = [p \in ConcurrentWorkers |-> IdleReq]

SpecConcurrent == InitConcurrent /\ [][ConcurrentNext]_vars

(* ------------------------------- claims -------------------------------- *)

\* the session object of request p, once it has one
Conv(p) == The(req[p].conv_session)
HasConv(p) == req[p].conv_session # None

\* C1: a request whose classifier is not configured, or whose classifier call
\* failed, is not ended by that: its error exit, if any, has another cause than
\* the fusion of the absent score.
C1_ClassifierUnavailableIsNonFatal ==
  \A p \in Workers :
    (req[p].pc = "error" /\ req[p].frustration_analysis = None)
      => req[p].error # FusionTypeError

\* C2: every fused frustration score, in a request and on a persisted user
\* message, lies in [0, 1].
C2_FusedScoreInUnitInterval ==
  /\ \A p \in Workers :
       req[p].frustration_score # None
         => (0 <= The(req[p].frustration_score) /\ The(req[p].frustration_score) <= ScoreCap)
  /\ \A m \in UserMessages :
       m.frustration_score # None
         => (0 <= The(m.frustration_score) /\ The(m.frustration_score) <= ScoreCap)

\* C3: a session whose lastTopic is null has currentTopicLength 0, in every
\* persisted row and in the session object every request carries towards its
\* persistence step.
C3_NullTopicHasZeroLength ==
  /\ \A id \in DOMAIN sessions :
       sessions[id].last_topic = None => sessions[id].current_topic_length = 0
  /\ \A p \in Workers :
       (HasConv(p) /\ Conv(p).last_topic = None) => Conv(p).current_topic_length = 0

\* C3 witness: the evaluator has reset a session that was persisted with a topic
\* and a positive length.
C3_Witness ==
  \E p \in Workers :
    /\ HasConv(p)
    /\ req[p].loaded # None
    /\ The(req[p].loaded).current_topic_length >= 1
    /\ The(req[p].loaded).last_topic # None
    /\ Conv(p).last_topic = None
    /\ Conv(p).current_topic_length = 0

UsersOf(id) == {m \in MessagesOf(id) : m.role = "user"}
AssistantsOf(id) == {m \in MessagesOf(id) : m.role = "assistant"}

\* C4: a request that ended in the error exit has neither of its messages among
\* the persisted ones, and every session holds as many assistant messages as
\* user messages.
C4_ReplyFailurePersistsNoMessage ==
  /\ \A p \in Workers :
       req[p].pc = "error"
         => (req[p].user_message \cup req[p].assistant_message) \cap messages = {}
  /\ \A id \in SessionIds \cup {UnknownId} :
       Cardinality(UsersOf(id)) = Cardinality(AssistantsOf(id))

\* C4 witness: the main reply call failed on a session that holds messages.
C4_Witness ==
  \E p \in Workers :
    /\ req[p].pc = "error"
    /\ req[p].error = ReplyFailure
    /\ req[p].user_message # None
    /\ MessagesOf(Conv(p).id) # {}

\* request p names an existing session of another user
ForeignRequest(p) ==
  /\ req[p].pc # "idle"
  /\ GetSession(req[p].session_id) # None
  /\ The(GetSession(req[p].session_id)).user_id # req[p].user

\* C5: a request naming another user's session only ever waits for the lookup or
\* has ended in the access-denied error; no step of it changes a session or a
\* message; and every message of a session was appended by a request of the
\* session's owner.
C5_ForeignSessionRejected ==
  /\ [](\A p \in Workers :
          ForeignRequest(p)
            => \/ req[p].pc = "resolve"
               \/ req[p].pc = "error" /\ req[p].error \in {AccessDenied, ConfigurationMissing})
  /\ [][\A p \in Workers :
          (ForeignRequest(p) \/ ForeignRequest(p)') => UNCHANGED <<sessions, messages>>]_vars
  /\ [](\A m \in messages :
          /\ m.conversation_session_id \in DOMAIN sessions
          /\ m.author = sessions[m.conversation_session_id].user_id)

\* C5 witness: the request for another user's session, which holds messages, has
\* been refused.
C5_Witness ==
  \E p \in Workers :
    /\ ForeignRequest(p)
    /\ req[p].pc = "error"
    /\ req[p].error = AccessDenied
    /\ MessagesOf(req[p].session_id.id) # {}

\* C6 as stated: the length a finished request persisted is the previous length
\* plus one after CONTINUED, and the evaluator's 0 after FRESH or DRIFTED.
C6_IncrementOnlyWhenContinued ==
  \A p \in Workers :
    req[p].pc = "done"
      => The(req[p].response).current_topic_length =
           IF req[p].outcome = "CONTINUED"
           THEN The(req[p].loaded).current_topic_length + 1
           ELSE 0

\* C6 amended: every finished request persisted the length the evaluator left
\* plus one: the previous length plus one after CONTINUED, with lastTopic as it
\* was loaded, and 1 after FRESH or DRIFTED.
C6_IncrementOnEveryCycle ==
  \A p \in Workers :
    req[p].pc = "done"
      => LET row == sessions[Conv(p).id]
         IN /\ The(req[p].response).current_topic_length = row.current_topic_length
            /\ req[p].outcome \in {"FRESH", "CONTINUED", "DRIFTED"}
            /\ req[p].outcome = "CONTINUED"
                 => /\ row.current_topic_length =
                         The(req[p].loaded).current_topic_length + 1
                    /\ row.last_topic = The(req[p].loaded).last_topic
            /\ req[p].outcome # "CONTINUED" => row.current_topic_length = 1

\* C6 witness: a CONTINUED turn has been persisted.
C6_Witness ==
  \E p \in Workers :
    /\ req[p].pc = "done"
    /\ req[p].outcome = "CONTINUED"
    /\ sessions[Conv(p).id].current_topic_length = 2

\* the request supplied no id, a blank id, or the id of no session
SuppliesNoSession(p) ==
  ~HasSessionId(req[p].session_id) \/ req[p].session_id.id = UnknownId

\* C7: a request without the id of an existing session builds a new session owned
\* by its user, which no row holds before the commit; when it is done the
\* response names that session, the row is the user's and its length is 1.
C7_NewSessionForMissingId ==
  \A p \in Workers :
    /\ (SuppliesNoSession(p) /\ req[p].pc \notin {"idle", "resolve", "title", "error"})
         => (req[p].loaded = None /\ HasConv(p))
    /\ (req[p].loaded = None /\ HasConv(p))
         => /\ Conv(p).user_id = req[p].user
            /\ req[p].pc # "done" => Conv(p).id \notin DOMAIN sessions
            /\ req[p].pc = "done"
                 => /\ The(req[p].response).session_id = Conv(p).id
                    /\ Conv(p).id \in DOMAIN sessions
                    /\ sessions[Conv(p).id].user_id = req[p].user
                    /\ sessions[Conv(p).id].current_topic_length = 1
                    /\ The(req[p].response).current_topic_length = 1

\* C7 witness: a request with the id of no session, or with a blank id, is done.
C7_Witness ==
  \E p \in Workers :
    /\ req[p].pc = "done"
    /\ req[p].session_id \in {SessionIdOf(UnknownId), BlankSessionId}
    /\ Conv(p).id \in DOMAIN sessions

\* the last k persisted turns of session id were CONTINUED turns scored 0.2
ContinuedRun(id, k) ==
  LET turns == OrderByCreatedAt(UsersOf(id))
  IN /\ Len(turns) >= k
     /\ \A i \in (Len(turns) - k + 1)..Len(turns) :
          turns[i].continued /\ turns[i].raw = Some(2)

\* C8: the sixth of six consecutive CONTINUED turns of a session, each scored 0.2
\* by the classifier, is fused to 0.7 and answered under the escalated
\* instruction.
C8_SixthContinuedTurnEscalates ==
  \A p \in Workers :
    LET sixth ==
          /\ req[p].outcome = "CONTINUED"
          /\ req[p].frustration_analysis = Some(2)
          /\ \/ req[p].pc \in {"generate", "persist"} /\ ContinuedRun(Conv(p).id, 5)
             \/ req[p].pc = "done" /\ ContinuedRun(Conv(p).id, 6)
    IN sixth
         => /\ req[p].frustration_score = Some(7)
            /\ The(req[p].user_message).frustration_score = Some(7)
            /\ req[p].pc \in {"persist", "done"}
                 => req[p].system_instruction = "frustration_prompt"

\* C8 witness: the sixth consecutive CONTINUED turn has been persisted.
C8_Witness ==
  \E p \in Workers :
    /\ req[p].pc = "done"
    /\ req[p].outcome = "CONTINUED"
    /\ ContinuedRun(Conv(p).id, 6)
    /\ The(req[p].user_message) \in messages

\* C9: when the evaluator meets a session idle for longer than the threshold, it
\* issues no continuity call: the outcome is FRESH, lastTopic is cleared and the
\* length is 0; and the topic summary that follows leaves a topic that is not
\* null.
C9_IdleSessionIsFresh ==
  [][\A p \in Workers :
       /\ (/\ req[p].pc = "evaluate"
           /\ req'[p].pc # "evaluate"
           /\ IsIdle(Conv(p), now'))
            => /\ req'[p].pc = "summary"
               /\ req'[p].outcome = "FRESH"
               /\ The(req'[p].conv_session).last_topic = None
               /\ The(req'[p].conv_session).current_topic_length = 0
       /\ (req[p].pc = "summary" /\ req'[p].pc = "fuse")
            => The(req'[p].conv_session).last_topic # None]_vars

\* C9 witness: a session persisted with a topic was found idle and the request
\* went on to the fusion with a new summary.
C9_Witness ==
  \E p \in Workers :
    /\ req[p].pc = "fuse"
    /\ req[p].outcome = "FRESH"
    /\ req[p].loaded # None
    /\ Truthy(The(req[p].loaded).last_topic)
    /\ IsIdle(The(req[p].loaded), now)
    /\ Truthy(Conv(p).last_topic)

\* C10: a failure of the topic summary call does not end a request, here one the
\* classifier has scored, in the error exit.
C10_SummaryFailureIsNonFatal ==
  \A p \in Workers :
    (req[p].pc = "error" /\ req[p].frustration_analysis # None)
      => req[p].error # SummaryFailure

\* C11: the main reply is asked for under the escalated instruction exactly when
\* the fused score is strictly above 0.5 (5 tenths); at 0.5 or below it is asked
\* for under the standard instruction.
C11_EscalatedIffAboveThreshold ==
  \A p \in Workers :
    req[p].pc \in {"persist", "done"}
      => /\ req[p].frustration_score # None
         /\ The(req[p].frustration_score) > 5
              => req[p].system_instruction = "frustration_prompt"
         /\ The(req[p].frustration_score) <= 5
              => req[p].system_instruction = "system_prompt"

\* C11 witness: a reply was generated for a fused score of exactly 0.5.
C11_Witness ==
  \E p \in Workers :
    /\ req[p].pc = "persist"
    /\ req[p].frustration_score = Some(5)
    /\ req[p].system_instruction = "system_prompt"

\* the continuity reply as the claim reads it: the non-alphabetic characters
\* dropped and the case folded; a missing reply reads as the empty text
ReadReply(text) == IF text = None THEN <<>> ELSE Lower(OnlyAlpha(The(text)))

\* C12: the continuity call is issued exactly for an existing session that has a
\* topic and is not idle; its outcome is CONTINUED, with the session left as it
\* was, exactly when the reply read without its non-alphabetic characters and
\* case-folded is "yes"; every other reply gives DRIFTED, with lastTopic cleared
\* and the length 0, and a DRIFTED request goes on by calling the topic summary.
C12_ContinuedExactlyOnYes ==
  /\ [](\A p \in Workers :
          req[p].pc = "continuity"
            => /\ req[p].loaded # None
               /\ Truthy(Conv(p).last_topic)
               /\ ~(now - Conv(p).updated_at > ThreadTimeout))
  /\ [][\A p \in Workers :
          /\ (/\ req[p].pc = "evaluate"
              /\ req'[p].pc # "evaluate"
              /\ Truthy(Conv(p).last_topic)
              /\ ~(now' - Conv(p).updated_at > ThreadTimeout))
               => req'[p].pc = "continuity"
          /\ (req[p].pc = "continuity" /\ req'[p].pc = "summary")
               => LET reply == req'[p].continuity_reply[1]
                      after == The(req'[p].conv_session)
                  IN IF ReadReply(reply) = <<"y", "e", "s">>
                     THEN /\ req'[p].outcome = "CONTINUED"
                          /\ after = Conv(p)
                     ELSE /\ req'[p].outcome = "DRIFTED"
                          /\ after.last_topic = None
                          /\ after.current_topic_length = 0
          /\ (/\ req[p].pc = "summary"
              /\ req[p].outcome = "DRIFTED"
              /\ req'[p].pc # "summary")
               => /\ req'[p].calls = Append(req[p].calls, "summary")
                  /\ req'[p].pc = "fuse"
                       => The(req'[p].conv_session).last_topic # None]_vars

\* C12 witness: a reply that begins with the affirmative token and goes on was
\* read as a drift.
C12_Witness ==
  \E p \in Workers :
    /\ req[p].pc = "summary"
    /\ req[p].outcome = "DRIFTED"
    /\ req[p].continuity_reply = <<Some(<<"y", "e", "s", " ", "i", "t", " ", "i", "s">>)>>
    /\ Conv(p).last_topic = None

\* the last persisted turn of session id was a FRESH or a DRIFTED one
LastTurnWasReset(id) ==
  LET turns == OrderByCreatedAt(UsersOf(id))
  IN turns # <<>> /\ ~turns[Len(turns)].continued

\* C13: resetting a topic state that is reset changes nothing, and the evaluator
\* leaves every DRIFTED or FRESH request with the topic state (0, null), also
\* when the session's previous turn was itself DRIFTED or FRESH.
C13_ResetIsIdempotent ==
  \A p \in Workers :
    /\ HasConv(p) => ResetTopic(ResetTopic(Conv(p))) = ResetTopic(Conv(p))
    /\ (req[p].pc = "summary" /\ req[p].outcome \in {"DRIFTED", "FRESH"})
         => /\ Conv(p).last_topic = None
            /\ Conv(p).current_topic_length = 0

\* C13 witness: a DRIFTED outcome on a session whose previous turn was a reset.
C13_Witness ==
  \E p \in Workers :
    /\ req[p].pc = "summary"
    /\ req[p].outcome = "DRIFTED"
    /\ LastTurnWasReset(Conv(p).id)
    /\ Conv(p).last_topic = None
    /\ Conv(p).current_topic_length = 0

RECURSIVE TrailingContinued(_)
\* the number of CONTINUED turns at the end of a list of turns
TrailingContinued(turns) ==
  IF turns = <<>> \/ ~turns[Len(turns)].continued THEN 0
  ELSE 1 + TrailingContinued(SubSeq(turns, 1, Len(turns) - 1))

\* the persisted turns of session id since its topic was last reset: the FRESH or
\* DRIFTED turn that reset it and the CONTINUED turns after it
TurnsSinceReset(id) == 1 + TrailingContinued(OrderByCreatedAt(UsersOf(id)))

\* C14: the currentTopicLength of a persisted session is the number of its
\* persisted turns since its topic was last reset, also after two requests on
\* the session have interleaved; stated for the sessions whose topic was never
\* reset after their first turn: every CONTINUED turn persisted has raised the
\* length by one.
C14_LengthCountsTurnsSinceReset ==
  \A id \in DOMAIN sessions :
    TurnsSinceReset(id) = Cardinality(UsersOf(id))
      => sessions[id].current_topic_length = TurnsSinceReset(id)

\* the messages of session id among ms, ordered by creation time
HistoryOf(ms, id) == OrderByCreatedAt({m \in ms : m.conversation_session_id = id})

IsPrefix(a, b) == Len(a) <= Len(b) /\ SubSeq(b, 1, Len(a)) = a

\* C15: every step leaves each session's list of messages, ordered by creation
\* time, a prefix of the list after the step, each message with the role and the
\* content it had: messages are only ever appended at the end.
C15_MessagesAppendOnly ==
  [][\A id \in SessionIds :
       IsPrefix(HistoryOf(messages, id), HistoryOf(messages', id))]_vars

\* the kind of code a persisted user message was submitted with
CodeOf(m) == m.content[2]

\* C16: code with a syntax error does not block the cycle: a finished request has
\* issued the main reply call and persisted its message pair whatever the code
\* was; the user message carries a diagnostic that is not null when the code has
\* a syntax error, and a null diagnostic when the code is valid or absent.
C16_DiagnosticOnlyForInvalidCode ==
  /\ \A p \in Workers :
       req[p].pc = "done"
         => /\ req[p].calls[Len(req[p].calls)] = "reply"
            /\ req[p].user_message \cup req[p].assistant_message \subseteq messages
  /\ \A m \in UserMessages :
       /\ CodeOf(m) = "invalid" => m.syntax_errors # None
       /\ CodeOf(m) \in {"valid", "absent"} => m.syntax_errors = None

\* the currentTopicLength the evaluator left to request p: 0 after a FRESH or
\* DRIFTED reset, the stored value after CONTINUED
EvaluatorLength(p) ==
  IF req[p].outcome = "CONTINUED" THEN The(req[p].loaded).current_topic_length ELSE 0

\* C17: the fused score of a request, on the request and on its user message, is
\* min(raw + penalty, 1.0), the penalty being 0.1 * (L - 1) when L < 5 and 0.5
\* otherwise, for the length L the evaluator left; the stored length is L + 1
\* only after the fusion, at the commit.
C17_FusedFromLengthBeforeIncrement ==
  \A p \in Workers :
    req[p].pc \in {"generate", "persist", "done"}
      => LET L == EvaluatorLength(p)
             penalty == IF L < 5 THEN L - 1 ELSE 5
             raw == The(req[p].frustration_analysis)
             fused == IF raw + penalty <= 10 THEN raw + penalty ELSE 10
         IN /\ req[p].frustration_score = Some(fused)
            /\ The(req[p].user_message).frustration_score = Some(fused)
            /\ req[p].pc # "done" => Conv(p).current_topic_length = L
            /\ req[p].pc = "done" => sessions[Conv(p).id].current_topic_length = L + 1

\* C17 witness: a CONTINUED turn on a stored length of 4 was fused to 0.2 + 0.3
\* and persisted with length 5.
C17_Witness ==
  \E p \in Workers :
    /\ req[p].pc = "done"
    /\ req[p].outcome = "CONTINUED"
    /\ The(req[p].loaded).current_topic_length = 4
    /\ req[p].frustration_score = Some(5)
    /\ sessions[Conv(p).id].current_topic_length = 5

\* C18: a request in the error exit has persisted nothing: the session it
\* loaded is stored as it was loaded (lastTopic, currentTopicLength and update
\* time), the session it was creating does not exist, none of its messages is
\* stored, and neither the step into the error exit nor the step out of it
\* changes a session or a message.
C18_ErrorExitPersistsNothing ==
  /\ [](\A p \in Workers :
          req[p].pc = "error"
            => /\ req[p].response = None
               /\ (req[p].user_message \cup req[p].assistant_message) \cap messages = {}
               /\ req[p].loaded # None
                    => sessions[The(req[p].loaded).id] = The(req[p].loaded)
               /\ (req[p].loaded = None /\ HasConv(p))
                    => Conv(p).id \notin DOMAIN sessions)
  /\ [][\A p \in Workers :
          (req[p].pc = "error" \/ req'[p].pc = "error")
            => UNCHANGED <<sessions, messages>>]_vars

\* C18 witness: the topic summary failed after the evaluator had reset, in the
\* request, the topic of a stored session.
C18_Witness ==
  \E p \in Workers :
    /\ req[p].pc = "error"
    /\ req[p].error = SummaryFailure
    /\ req[p].loaded # None
    /\ Conv(p).last_topic = None
    /\ Conv(p).current_topic_length = 0
    /\ sessions[Conv(p).id].last_topic # None
    /\ sessions[Conv(p).id].current_topic_length >= 1

Range(s) == {s[i] : i \in 1..Len(s)}

\* the place of a generation call in the handler
CallRank(call) ==
  CASE call = "title" -> 1
    [] call = "continuity" -> 2
    [] call = "summary" -> 3
    [] call = "reply" -> 4

\* C19: the generation calls of a request are issued one after the other in the
\* order continuity check, topic summary, main reply, each at most once; only
\* the step that follows the main reply's return writes sessions or messages; a
\* request is never both answered and in error, leaves neither exit except to
\* end, and every request reaches one of the two.
C19_CallsInOrderOnceThenOneExit ==
  /\ [](\A p \in Workers :
          /\ \A i, j \in 1..Len(req[p].calls) :
               i < j => CallRank(req[p].calls[i]) < CallRank(req[p].calls[j])
          /\ ~("title" \in Range(req[p].calls) /\ "continuity" \in Range(req[p].calls))
          /\ req[p].pc \in {"persist", "done"}
               => req[p].calls[Len(req[p].calls)] = "reply"
          /\ req[p].pc = "done" => (req[p].response # None /\ req[p].error = "")
          /\ req[p].pc = "error" => (req[p].response = None /\ req[p].error # "")
          /\ (req[p].response # None \/ req[p].error # "")
               => req[p].pc \in {"done", "error"})
  /\ [][\A p \in Workers :
          /\ <<sessions, messages>>' # <<sessions, messages>>
               => /\ req[p].pc = "persist"
                  /\ req'[p].pc = "done"
                  /\ req[p].calls[Len(req[p].calls)] = "reply"
          /\ (req[p].pc \in {"done", "error"} /\ req'[p] # req[p])
               => req'[p].pc = "idle"]_vars
  /\ \A p \in Workers :
       (req[p].pc # "idle") ~> (req[p].pc \in {"done", "error"})

\* C19 witness: a request that issued the continuity check, the topic summary
\* and the main reply, in this order, has been answered.
C19_Witness ==
  \E p \in Workers :
    /\ req[p].pc = "done"
    /\ req[p].calls = <<"continuity", "summary", "reply">>
    /\ req[p].user_message \cup req[p].assistant_message \subseteq messages

\* C20: the prompt of the main reply call holds one line for every persisted
\* message of the session, in ascending creation order, a User line for a user
\* message and an Assistant line for any other, and then the new user turn as
\* its last element, whatever the topic outcome.
C20_PromptHoldsWholeHistory ==
  \A p \in Workers :
    req[p].pc \in {"generate", "persist"}
      => LET prior == HistoryOf(messages, Conv(p).id)
             prompt == req[p].full_conversation
         IN /\ Len(prompt) = Len(prior) + 1
            /\ \A i \in 1..Len(prior) :
                 /\ prompt[i][1] = (IF prior[i].role = "user" THEN "User" ELSE "Assistant")
                 /\ prompt[i][2] = prior[i].content
            /\ prompt[Len(prompt)][2] = <<"Problem", req[p].code>>
            /\ req[p].outcome \in {"FRESH", "CONTINUED", "DRIFTED"}

\* C20 witness: a DRIFTED request on a session with a persisted turn is about to
\* ask for the main reply with the turn and its answer in the prompt.
C20_Witness ==
  \E p \in Workers :
    /\ req[p].pc = "generate"
    /\ req[p].outcome = "DRIFTED"
    /\ Len(req[p].full_conversation) = 3
    /\ req[p].full_conversation[1][1] = "User"
    /\ req[p].full_conversation[2][1] = "Assistant"

\* the penalty a request was given: its fused score less its raw probability,
\* unless the clamp cut it
AppliedPenalty(p) == The(req[p].frustration_score) - The(req[p].frustration_analysis)

\* C21: the topic-persistence penalty never decreases as currentTopicLength
\* grows from 0 and never exceeds 0.5, and the fused score of a request never
\* exceeds its raw probability plus 0.5, however long its topic has run.
C21_PenaltyMonotoneAndBounded ==
  /\ \A length \in 0..(2 * SaturationLength) :
       /\ Penalty(length) <= Penalty(length + 1)
       /\ Penalty(length) <= 5
  /\ \A p \in Workers :
       req[p].frustration_score # None
         => AppliedPenalty(p) <= 5
  /\ \A m \in UserMessages :
       The(m.frustration_score) <= The(m.raw) + 5

\* C21 witness: a turn on a topic that has run for six turns was given the
\* saturated penalty.
C21_Witness ==
  \E p \in Workers :
    /\ req[p].pc = "generate"
    /\ Conv(p).current_topic_length = 6
    /\ AppliedPenalty(p) = 5

\* C25: the fused score stored on a user message is never below the raw
\* probability the classifier gave for it, whatever the topic outcome.
C25_FusionNeverLowersTheEstimate ==
  \A m \in UserMessages :
    m.raw # None => The(m.frustration_score) >= The(m.raw)

\* C26: every persisted session has a lastTopic that is not null and a
\* currentTopicLength of at least 1, and it holds the message pair of a
\* successful cycle: no session is persisted but by the commit of one.
C26_PersistedSessionHasTopicAndLength ==
  \A id \in DOMAIN sessions :
    /\ sessions[id].last_topic # None
    /\ sessions[id].current_topic_length >= 1
    /\ UsersOf(id) # {}
    /\ AssistantsOf(id) # {}

\* C26 witness: a session was persisted with the topic summary of an answer made
\* of whitespace, which is the empty text and not null.
C26_Witness ==
  \E id \in DOMAIN sessions :
    /\ sessions[id].last_topic = Some(<<>>)
    /\ sessions[id].current_topic_length = 1

\* C24: in every persisted state the messages of a session, ordered by creation
\* time, alternate user, assistant, user, assistant, and each user message is
\* followed at once by the assistant message of the request that built it.
C24_MessagesAlternateInPairs ==
  \A id \in SessionIds :
    LET history == HistoryOf(messages, id)
    IN /\ Len(history) % 2 = 0
       /\ \A i \in 1..Len(history) :
            IF i % 2 = 1
            THEN /\ history[i].role = "user"
                 /\ history[i + 1].reply_to = history[i].created_at
            ELSE history[i].role = "assistant"

\* C23: a listing or history operation changes no session and no message; a
\* listing holds exactly the sessions of the calling user, each once, none before
\* a session updated later; a history answers not-found for a session that does
\* not exist and access-denied for a session of another user, with no message in
\* either answer, and otherwise holds exactly the session's messages, with their
\* roles and contents, in ascending order of creation.
C23_ReadsAreProjections ==
  /\ [](\A p \in Workers :
          req[p].view # None
            => LET view == The(req[p].view)
                   items == view.items
                   sid == req[p].session_id.id
               IN IF view.op = "sessions"
                  THEN /\ view.status = 200
                       /\ {items[i].id : i \in DOMAIN items} =
                            {id \in DOMAIN sessions : sessions[id].user_id = req[p].user}
                       /\ \A i, j \in DOMAIN items :
                            i < j => /\ items[i].id # items[j].id
                                     /\ sessions[items[i].id].updated_at
                                          >= sessions[items[j].id].updated_at
                  ELSE IF sid \notin DOMAIN sessions
                  THEN view.status = 404 /\ items = <<>>
                  ELSE IF sessions[sid].user_id # req[p].user
                  THEN view.status = 403 /\ items = <<>>
                  ELSE /\ view.status = 200
                       /\ Len(items) = Cardinality(MessagesOf(sid))
                       /\ \A i \in DOMAIN items :
                            \E m \in MessagesOf(sid) :
                              /\ m.created_at = items[i].created_at
                              /\ m.role = items[i].role
                              /\ m.content = items[i].content
                       /\ \A i, j \in DOMAIN items :
                            i < j => items[i].created_at < items[j].created_at)
  /\ [][\A p \in Workers :
          req'[p].view # req[p].view => UNCHANGED <<sessions, messages>>]_vars

\* C23 witness: a user who has two sessions, updated at different times and
\* the older one holding messages, has listed them.
C23_Witness ==
  \E p \in Workers :
    /\ req[p].view # None
    /\ The(req[p].view).op = "sessions"
    /\ Len(The(req[p].view).items) = 2
    /\ The(req[p].view).items[1].updated_at > The(req[p].view).items[2].updated_at
    /\ MessagesOf(The(req[p].view).items[2].id) # {}

\* Reachability of the three answers of the history operation: a denied read of
\* a session that holds messages, a read of a session that does not exist, and
\* a read that returns both messages of a turn.
HistoryDeniedReached ==
  \E p \in Workers :
    /\ req[p].view # None
    /\ The(req[p].view).op = "history"
    /\ The(req[p].view).status = 403
    /\ MessagesOf(req[p].session_id.id) # {}

HistoryMissingReached ==
  \E p \in Workers :
    /\ req[p].view # None
    /\ The(req[p].view).status = 404

HistoryReturnedReached ==
  \E p \in Workers :
    /\ req[p].view # None
    /\ The(req[p].view).op = "history"
    /\ Len(The(req[p].view).items) >= 2

\* what the title request returned to the handler: nothing when the call raised,
\* when the response has neither text nor parts, or when a part has no text
ReturnedText(reply) ==
  IF reply.raises THEN None
  ELSE IF reply.text # None /\ The(reply.text) # <<>> THEN reply.text
  ELSE IF reply.parts = None THEN None
  ELSE IF \E i \in DOMAIN The(reply.parts) : The(reply.parts)[i] = None THEN None
  ELSE Some(Join([i \in DOMAIN The(reply.parts) |-> The(The(reply.parts)[i])]))

\* the problem itself when it has at most 50 characters, else its first 50
\* characters followed by three dots
ExcerptOf(problem) ==
  IF Len(problem) <= 50
  THEN problem
  ELSE [i \in 1..53 |-> IF i <= 50 THEN problem[i] ELSE "."]

\* C22 as stated: the title of a new session is the returned text itself when
\* that text is non-empty and has at most 100 characters, and the excerpt of the
\* problem otherwise.
C22_TitleIsTheReturnedText ==
  \A p \in Workers :
    req[p].title_reply # None
      => LET r == ReturnedText(The(req[p].title_reply))
         IN Conv(p).title =
              IF r # None /\ The(r) # <<>> /\ Len(The(r)) <= 100
              THEN The(r)
              ELSE ExcerptOf(req[p].problem)

\* C22 amended: the title of a new session is the returned text with the blanks
\* around it removed, when what is left is non-empty and has at most 100
\* characters; otherwise (the call raised, nothing was returned, only blanks
\* were returned, or more than 100 characters are left) it is the problem itself
\* when that has at most 50 characters, else its first 50 characters followed by
\* three dots. The committed row holds that title, and the step that asks for
\* the title always builds the session and goes on to the topic summary.
C22_TitleIsTheStrippedSummary ==
  /\ [](\A p \in Workers :
          req[p].title_reply # None
            => LET r == ReturnedText(The(req[p].title_reply))
                   expected ==
                     IF r # None /\ Strip(The(r)) # <<>> /\ Len(Strip(The(r))) <= 100
                     THEN Strip(The(r))
                     ELSE ExcerptOf(req[p].problem)
               IN /\ HasConv(p)
                  /\ Conv(p).title = expected
                  /\ req[p].pc = "done" => sessions[Conv(p).id].title = expected)
  /\ [][\A p \in Workers :
          req[p].pc = "title"
            => /\ req'[p].pc = "summary"
               /\ req'[p].conv_session # None
               /\ req'[p].error = ""]_vars

\* C22 witness: a request with a problem of 51 characters, whose title request
\* returned 101 characters, has committed a session titled with the first 50
\* characters of the problem and three dots.
C22_Witness ==
  \E p \in Workers :
    /\ req[p].pc = "done"
    /\ req[p].title_reply # None
    /\ The(req[p].title_reply) = TitleReply(FALSE, Some(Patterned(101)), None)
    /\ Len(req[p].problem) = 51
    /\ Len(sessions[Conv(p).id].title) = 53
    /\ SubSeq(sessions[Conv(p).id].title, 1, 50) = SubSeq(req[p].problem, 1, 50)

\* a title request that raised has been followed by a committed turn
TitleFailureSurvived ==
  \E p \in Workers :
    /\ req[p].pc = "done"
    /\ req[p].title_reply # None
    /\ The(req[p].title_reply).raises

\* a summary returned between blanks has become a title without them
StrippedTitleStored ==
  \E p \in Workers :
    /\ req[p].pc = "done"
    /\ req[p].title_reply # None
    /\ The(req[p].title_reply).text = Some(<<" ">> \o ShortTitle \o <<"\n">>)
    /\ sessions[Conv(p).id].title = ShortTitle

====
